---- MODULE Spec2Model ----
(***************************************************************************)
(* The file-backed log store of templates/python/app/main.py: FileLogger   *)
(* (_get_log_file, _write_log, info/error/warn/debug), the log_requests    *)
(* middleware, and the /health and /logs handlers.                         *)
(*                                                                         *)
(* A partition file is a sequence of pieces: a piece is the text of one    *)
(* json.dumps(...) result, a piece of text that is no JSON, or a newline.  *)
(* Strings that the code parses (timestamps, levels) are modelled by their *)
(* form, so that formatting and parsing are separate steps.                *)
(*                                                                         *)
(* Three specifications share the state:                                   *)
(*   Spec      the service: requests in flight, each passing through       *)
(*             log_requests and then its handler (the clock stands still); *)
(*   StoreSpec the Log Store alone: _write_log and get_logs called one     *)
(*             after the other while the clock advances;                   *)
(*   EnvSpec   the Log Store with a directory that others write to and     *)
(*             remove (the clock stands still).                            *)
(***************************************************************************)
EXTENDS Integers, Sequences, FiniteSets, TLC

\* ------------------------------------------------------------------ bounds
MaxTime == 3        \* the clock stops after this many ticks (UTC instants 1..MaxTime)
TicksPerDay == 2    \* length of a calendar day in clock ticks
MaxLines == 3       \* lines written to the log directory
NumReq == 2         \* requests that can be in flight at the same time

Reqs == 1..NumReq
TzOffsets == {0 - 1, 0}            \* UTC offset of the process's local time, in ticks
Days == 0..((MaxTime + 1) \div TicksPerDay)

\* ------------------------------------------------------------------ strings
None == "<None>"                   \* Python's None for an Optional[str] parameter
LevelArgs == {"info", "ERROR"}      \* level arguments passed to _write_log
LevelParams == {None, "", "ERROR", "info"}   \* ?level= of GET /logs
Tails == {0, 1, 50}      \* ?tail= of GET /logs (50 is the default)

\* str.lower() on the level strings of the model
lower(s) ==
  CASE s = "ERROR" -> "error"
    [] s = "Error" -> "error"
    [] s = "INFO" -> "info"
    [] OTHER -> s

\* ---------------------------------------------------------------- timestamps
\* A timestamp string, by its form:
\*   "naive"  : YYYY-MM-DDTHH:MM:SS[.ffffff]       (wall time t, no offset)
\*   "offset" : the same followed by +HH:MM         (wall time t, offset off)
\*   "Z"      : the same followed by Z
\*   "bad"    : a string that is no ISO timestamp;  "empty" : ""
\*   "none"   : None;  "absent" : the key is missing;  "number" : not a string
TsStr(form, t, off) == [form |-> form, t |-> t, off |-> off]
NoSince == TsStr("none", 0, 0)

\* datetime.isoformat() of a naive datetime
isoformat(t) == TsStr("naive", t, 0)

\* s.replace('Z', '+00:00')
replace_Z(s) == IF s.form = "Z" THEN TsStr("offset", s.t, 0) ELSE s

\* datetime.fromisoformat(s): a datetime, or ValueError
fromisoformat(s) ==
  CASE s.form = "naive"  -> [exc |-> "none", aware |-> FALSE, inst |-> s.t]
    [] s.form = "offset" -> [exc |-> "none", aware |-> TRUE, inst |-> s.t - s.off]
    [] OTHER             -> [exc |-> "ValueError", aware |-> FALSE, inst |-> 0]

\* a >= b on datetimes: "true", "false", or TypeError when exactly one is aware
dt_ge(a, b) ==
  IF a.aware # b.aware THEN "TypeError"
  ELSE IF a.inst >= b.inst THEN "true" ELSE "false"

\* ------------------------------------------------------------------- JSON
\* A decoded JSON value.  isDict = FALSE is any value that is not an object
\* (a list, a number, null, a string).  For an object, level is the value of
\* its "level" key ("<absent>" when the key is missing, "<number>" when it is
\* not a string) and timestamp the form of its "timestamp" key.
JsonObj(ts, level, message, data) ==
  [isDict |-> TRUE, timestamp |-> ts, level |-> level, service |-> "python",
   message |-> message, data |-> data]
NonDict ==
  [isDict |-> FALSE, timestamp |-> TsStr("absent", 0, 0), level |-> "<absent>",
   service |-> "", message |-> "", data |-> ""]

\* Pieces of file text
NL == [kind |-> "nl", val |-> NonDict]                 \* "\n"
Garbage == [kind |-> "text", val |-> NonDict]          \* text that is no JSON
\* json.dumps(v): one line of text (control characters are escaped)
json_dumps(v) == [kind |-> "json", val |-> v]
\* json.loads(line): the value, or JSONDecodeError unless the line is exactly
\* one JSON text
json_loads(line) ==
  IF Len(line) = 1 /\ line[1].kind = "json"
    THEN [exc |-> "none", val |-> line[1].val]
    ELSE [exc |-> "JSONDecodeError", val |-> NonDict]

\* ------------------------------------------------------------------ state
VARIABLES
  utc,        \* the current instant (UTC), in ticks
  tz,         \* offset of the process's local time from UTC, in ticks
  dirExists,  \* whether ./.logs exists
  files,      \* files[d]: the partition named by date d
  appended,   \* history: appended[d] = the entries _write_log wrote to d, in order
  req,        \* req[r]: the request handled in slot r
  lastQuery   \* the most recent run of get_logs: what it read and returned

vars == <<utc, tz, dirExists, files, appended, req, lastQuery>>

NoFile == [exists |-> FALSE, content |-> <<>>]
NoResult == [exc |-> "none", logs |-> <<>>]
NoQuery ==
  [set |-> FALSE, tail |-> 50, level |-> None, since |-> NoSince, dir |-> TRUE,
   file |-> NoFile, readOk |-> TRUE, utcAt |-> 0, result |-> NoResult]
IdleReq == [pc |-> "idle", kind |-> "health", calls |-> 0, absorbed |-> 0,
            response |-> "none"]

\* -------------------------------------------------------------- FileLogger
\* datetime.now(): the naive local wall clock
now == utc + tz
\* strftime("%Y-%m-%d")
strftime_date(t) == t \div TicksPerDay
\* FileLogger._get_log_file
get_log_file == strftime_date(now)

\* the dict built in _write_log
log_entry(level, message, data) ==
  JsonObj(isoformat(now), lower(level), message, IF data = None THEN "{}" ELSE data)

\* file_write with the "\n" forgotten
file_write_NoNewline(content, text) == content \o <<text>>
\* file_write that puts the new line first (mode "r+" at offset 0)
file_write_Prepend(content, text) == <<text, NL>> \o content

\* open(path, "a") then f.write(text + "\n"): the text and a newline at the end
file_write(content, text) == content \o <<text, NL>>

\* write_log_raises without the try ... except
write_log_raises_NoExcept(ok) == ~ok

\* whether _write_log raises to its caller when the write failed: the body is
\* inside try ... except Exception, which prints and returns
write_log_raises(ok) == FALSE

\* FileLogger._write_log: the files afterwards, whether the line was written,
\* and whether an exception leaves the method
write_log(level, message, data, ioOk) ==
  LET ok == ioOk /\ dirExists
      d == get_log_file
  IN [files |-> IF ok
                  THEN [files EXCEPT ![d] =
                          [exists |-> TRUE,
                           content |-> file_write(@.content,
                                         json_dumps(log_entry(level, message, data)))]]
                  ELSE files,
      appended |-> IF ok
                     THEN [appended EXCEPT ![d] =
                             Append(@, log_entry(level, message, data))]
                     ELSE appended,
      wrote |-> ok,
      raised |-> write_log_raises(ok)]

\* ------------------------------------------------------------------ get_logs
\* f.readlines(), each line stripped: the pieces between newlines
RECURSIVE readlines(_, _, _)
readlines(content, i, cur) ==
  IF i > Len(content)
    THEN (IF cur = <<>> THEN <<>> ELSE <<cur>>)
  ELSE IF content[i].kind = "nl"
    THEN <<cur>> \o readlines(content, i + 1, <<>>)
  ELSE readlines(content, i + 1, Append(cur, content[i]))

\* the loop over the lines: blank lines and lines json.loads rejects are skipped
RECURSIVE parse_lines(_)
parse_lines(lines) ==
  IF lines = <<>> THEN <<>>
  ELSE LET line == Head(lines)
           rest == parse_lines(Tail(lines))
       IN IF line = <<>> THEN rest
          ELSE IF json_loads(line).exc # "none" THEN rest
          ELSE <<json_loads(line).val>> \o rest

\* truth value of an Optional[str] parameter
truthy(s) == s # None /\ s # ""
truthy_since(s) == s.form # "none" /\ s.form # "empty"

\* level_matches with .lower() forgotten
level_matches_NoLower(log, level) == log.level = level

\* log.get("level") == level.lower()
level_matches(log, level) == log.level = lower(level)

\* if level: logs = [log for log in logs if log.get("level") == level.lower()]
\* (.get on a value that is no dict raises AttributeError)
level_filter(logs, level) ==
  IF ~truthy(level) THEN [exc |-> "none", logs |-> logs]
  ELSE IF \E i \in 1..Len(logs) : ~logs[i].isDict
    THEN [exc |-> "Exception", logs |-> <<>>]
  ELSE [exc |-> "none", logs |-> SelectSeq(logs, LAMBDA log : level_matches(log, level))]

\* datetime.fromisoformat(log["timestamp"].replace('Z', '+00:00')) >= since_dt
\* for one log: "true", "false", "ValueError", or "Exception" (TypeError on a
\* value that is no dict or on comparing naive with aware, KeyError on a
\* missing key, AttributeError on a timestamp that is no string)
since_test(log, since_dt) ==
  IF ~log.isDict THEN "Exception"
  ELSE IF log.timestamp.form \in {"absent", "number"} THEN "Exception"
  ELSE LET dt == fromisoformat(replace_Z(log.timestamp))
       IN IF dt.exc # "none" THEN "ValueError"
          ELSE IF dt_ge(dt, since_dt) = "TypeError" THEN "Exception"
          ELSE dt_ge(dt, since_dt)

\* the list comprehension of the since filter, left to right: the first log
\* that raises ends it
RECURSIVE since_scan(_, _)
since_scan(logs, since_dt) ==
  IF logs = <<>> THEN [exc |-> "none", logs |-> <<>>]
  ELSE LET t == since_test(Head(logs), since_dt)
       IN IF t \in {"ValueError", "Exception"} THEN [exc |-> t, logs |-> <<>>]
          ELSE LET rest == since_scan(Tail(logs), since_dt)
               IN IF rest.exc # "none" THEN rest
                  ELSE [exc |-> "none",
                        logs |-> IF t = "true" THEN <<Head(logs)>> \o rest.logs
                                 ELSE rest.logs]

\* since_filter without the try ... except ValueError
since_filter_NoExcept(logs, since) ==
  IF ~truthy_since(since) THEN [exc |-> "none", logs |-> logs]
  ELSE LET since_dt == fromisoformat(replace_Z(since))
       IN IF since_dt.exc # "none" THEN [exc |-> "Exception", logs |-> <<>>]
          ELSE LET scan == since_scan(logs, since_dt)
               IN IF scan.exc = "ValueError" THEN [exc |-> "Exception", logs |-> <<>>]
                  ELSE scan

\* if since: try: ... except ValueError: pass
since_filter(logs, since) ==
  IF ~truthy_since(since) THEN [exc |-> "none", logs |-> logs]
  ELSE LET since_dt == fromisoformat(replace_Z(since))
       IN IF since_dt.exc # "none" THEN [exc |-> "none", logs |-> logs]
          ELSE LET scan == since_scan(logs, since_dt)
               IN IF scan.exc = "ValueError" THEN [exc |-> "none", logs |-> logs]
                  ELSE scan

\* logs[start:] with Python's handling of a negative or too large start
slice_from(logs, start) ==
  LET n == Len(logs)
      s == IF start < 0 THEN (IF start + n < 0 THEN 0 ELSE start + n)
           ELSE (IF start > n THEN n ELSE start)
  IN SubSeq(logs, s + 1, n)

\* logs = logs[-tail:]
tail_limit(logs, tail) == slice_from(logs, 0 - tail)

\* the body of get_logs inside its try: the list returned, or the exception
\* that reaches except Exception
get_logs_body(dir, file, tail, level, since, readOk) ==
  IF ~dir THEN NoResult
  ELSE IF ~file.exists THEN NoResult
  ELSE IF ~readOk THEN [exc |-> "Exception", logs |-> <<>>]
  ELSE LET logs == parse_lines(readlines(file.content, 1, <<>>))
           byLevel == level_filter(logs, level)
       IN IF byLevel.exc # "none" THEN byLevel
          ELSE LET bySince == since_filter(byLevel.logs, since)
               IN IF bySince.exc # "none" THEN bySince
                  ELSE [exc |-> "none", logs |-> tail_limit(bySince.logs, tail)]

\* ------------------------------------------------------------------ inputs
SinceTimes == {2}
SinceParams ==
  {NoSince, TsStr("empty", 0, 0), TsStr("bad", 0, 0)}
    \cup {TsStr("naive", t, 0) : t \in SinceTimes}
    \cup {TsStr("Z", t, 0) : t \in SinceTimes}
Kinds == {"health", "logs"}
Path(kind) == IF kind = "health" THEN "GET /health" ELSE "GET /logs"

\* number of lines the program has written so far
RECURSIVE SumLen(_)
SumLen(S) ==
  IF S = {} THEN 0
  ELSE LET d == CHOOSE x \in S : TRUE IN Len(appended[d]) + SumLen(S \ {d})
Written == SumLen(Days)
\* number of lines in the partitions
RECURSIVE CountNL(_)
CountNL(S) ==
  IF S = {} THEN 0
  ELSE LET d == CHOOSE x \in S : TRUE
       IN Len(SelectSeq(files[d].content, LAMBDA p : p.kind = "nl")) + CountNL(S \ {d})
\* the model stops writing when MaxLines lines were written
Room == Written < MaxLines /\ CountNL(Days) < MaxLines

\* -------------------------------------------------------------------- Init
Init ==
  /\ utc = 1
  /\ tz \in TzOffsets
  /\ dirExists = TRUE                       \* FileLogger.__init__: mkdir(exist_ok=True)
  /\ files = [d \in Days |-> NoFile]
  /\ appended = [d \in Days |-> <<>>]
  /\ req = [r \in Reqs |-> IdleReq]
  /\ lastQuery = NoQuery

\* ------------------------------------------------- the service's requests
\* the wall clock advances
Tick ==
  /\ utc < MaxTime
  /\ utc' = utc + 1
  /\ UNCHANGED <<tz, dirExists, files, appended, req, lastQuery>>

\* a request arrives and is given the first free slot
Free(r) == req[r].pc \in {"idle", "responded", "aborted"}
Arrive(r, kind) ==
  /\ Free(r)
  /\ \A q \in Reqs : q < r => ~Free(q)
  /\ req' = [req EXCEPT ![r] = [IdleReq EXCEPT !.pc = "received", !.kind = kind]]
  /\ UNCHANGED <<utc, tz, dirExists, files, appended, lastQuery>>

\* the effect of one file_logger.<level>(message, data) call made for request r
LoggedFor(r, out, pcNext, response) ==
  /\ files' = out.files
  /\ appended' = out.appended
  /\ req' = [req EXCEPT ![r] =
       [@ EXCEPT !.calls = @ + 1,
                 !.absorbed = @ + (IF out.wrote \/ out.raised THEN 0 ELSE 1),
                 !.pc = IF out.raised THEN "aborted" ELSE pcNext,
                 !.response = IF out.raised THEN "500" ELSE response]]

\* log_requests, up to "await call_next(request)"
log_requests(r, ioOk) ==
  /\ req[r].pc = "received"
  /\ Room
  /\ LoggedFor(r, write_log("info", Path(req[r].kind), "request", ioOk),
               "call_next", "none")
  /\ UNCHANGED <<utc, tz, dirExists, lastQuery>>

\* health without its file_logger.info call
health_NoLog(r, ioOk) ==
  /\ req[r].pc = "call_next"
  /\ req[r].kind = "health"
  /\ ioOk
  /\ req' = [req EXCEPT ![r] = [@ EXCEPT !.pc = "responded", !.response = "health_ok"]]
  /\ UNCHANGED <<utc, tz, dirExists, files, appended, lastQuery>>

\* the /health handler, and log_requests returning its response
health(r, ioOk) ==
  /\ req[r].pc = "call_next"
  /\ req[r].kind = "health"
  /\ Room
  /\ LoggedFor(r, write_log("info", "Health check requested", None, ioOk),
               "responded", "health_ok")
  /\ UNCHANGED <<utc, tz, dirExists, lastQuery>>

\* the /logs handler, and log_requests returning its response
get_logs(r, tail, level, since, readOk, ioOk) ==
  /\ req[r].pc = "call_next"
  /\ req[r].kind = "logs"
  /\ LET result == get_logs_body(dirExists, files[get_log_file], tail, level, since, readOk)
     IN IF result.exc = "none"
          THEN /\ req' = [req EXCEPT ![r] =
                    [@ EXCEPT !.pc = "responded", !.response = "logs"]]
               /\ UNCHANGED <<files, appended>>
          ELSE /\ Room
               \* except Exception: file_logger.error(...); return {"error": ...}
               /\ LoggedFor(r, write_log("error", "Failed to fetch logs", None, ioOk),
                            "responded", "error")
  /\ UNCHANGED <<utc, tz, dirExists, lastQuery>>

\* startup_event: file_logger.info("Python service started", ...)
\* (the server runs it before it serves the first request)
startup_event(ioOk) ==
  /\ \A r \in Reqs : req[r].pc = "idle"
  /\ Written = 0
  /\ Room
  /\ LET out == write_log("info", "Python service started", "service", ioOk)
     IN /\ files' = out.files
        /\ appended' = out.appended
  /\ UNCHANGED <<utc, tz, dirExists, req, lastQuery>>

Next ==
  \/ \E r \in Reqs, kind \in Kinds : Arrive(r, kind)
  \/ \E r \in Reqs, ioOk \in BOOLEAN : log_requests(r, ioOk)
  \/ \E r \in Reqs, ioOk \in BOOLEAN : health(r, ioOk)
  \/ \E r \in Reqs, since \in {NoSince, TsStr("Z", 1, 0)}, readOk \in BOOLEAN,
        ioOk \in BOOLEAN :
       get_logs(r, 50, None, since, readOk, ioOk)
  \/ \E ioOk \in BOOLEAN : startup_event(ioOk)

Spec == Init /\ [][Next]_vars

\* ------------------------------------------------- the Log Store on its own
\* Append: FileLogger.info / error / warn / debug, i.e. _write_log(level, ...)
logger_call(level, ioOk) ==
  /\ ~lastQuery.set
  /\ Room
  /\ LET out == write_log(level, "event", None, ioOk)
     IN /\ files' = out.files
        /\ appended' = out.appended
  /\ UNCHANGED <<utc, tz, dirExists, req, lastQuery>>

\* midnight and every other instant pass between the calls
StoreTick ==
  /\ ~lastQuery.set
  /\ Tick

\* Query: one run of get_logs(tail, level, since), up to its return statement
Query(tail, level, since, readOk, ioOk) ==
  /\ ~lastQuery.set
  /\ LET file == files[get_log_file]
         result == get_logs_body(dirExists, file, tail, level, since, readOk)
     IN /\ lastQuery' =
             [set |-> TRUE, tail |-> tail, level |-> level, since |-> since,
              dir |-> dirExists, file |-> file, readOk |-> readOk, utcAt |-> utc,
              result |-> result]
        /\ IF result.exc = "none"
             THEN /\ ioOk
                  /\ UNCHANGED <<files, appended>>
             ELSE /\ Room
                  /\ LET out == write_log("error", "Failed to fetch logs", None, ioOk)
                     IN /\ files' = out.files
                        /\ appended' = out.appended
  /\ UNCHANGED <<utc, tz, dirExists, req>>

\* get_logs returns: the caller has the result
Return ==
  /\ lastQuery.set
  /\ lastQuery' = NoQuery
  /\ UNCHANGED <<utc, tz, dirExists, files, appended, req>>

StoreNext ==
  \/ StoreTick
  \/ \E level \in LevelArgs, ioOk \in BOOLEAN : logger_call(level, ioOk)
  \/ \E tail \in Tails, level \in LevelParams, since \in SinceParams,
        readOk \in BOOLEAN, ioOk \in BOOLEAN :
       Query(tail, level, since, readOk, ioOk)
  \/ Return

StoreSpec == Init /\ [][StoreNext]_vars

\* ------------------------------------------ the Log Store and its directory
\* Lines another writer can leave in a partition: text that is no JSON, a
\* blank line, a JSON value that is no object, and objects that are not
\* LogRecords (an upper-case level with a "Z" timestamp, a timestamp that is
\* no ISO string, no timestamp at all)
ForeignLines ==
  { <<Garbage, NL>>,
    <<NL>>,
    <<json_dumps(NonDict), NL>>,
    <<json_dumps(JsonObj(TsStr("Z", 2, 0), "ERROR", "foreign", "{}")), NL>>,
    <<json_dumps(JsonObj(TsStr("bad", 0, 0), "<absent>", "foreign", "{}")), NL>>,
    <<json_dumps(JsonObj(TsStr("absent", 0, 0), "<number>", "foreign", "{}")), NL>> }

\* a line is added to today's partition by hand
ManualInsert(line) ==
  /\ ~lastQuery.set
  /\ dirExists
  /\ CountNL(Days) < MaxLines
  /\ files' = [files EXCEPT ![get_log_file] =
                 [exists |-> TRUE, content |-> @.content \o line]]
  /\ UNCHANGED <<utc, tz, dirExists, appended, req, lastQuery>>

\* ./.logs is removed with the partitions in it
RemoveLogsDir ==
  /\ ~lastQuery.set
  /\ dirExists
  /\ dirExists' = FALSE
  /\ files' = [d \in Days |-> NoFile]
  /\ UNCHANGED <<utc, tz, appended, req, lastQuery>>

EnvNext ==
  \/ \E level \in LevelArgs, ioOk \in BOOLEAN : logger_call(level, ioOk)
  \/ \E tail \in Tails, level \in LevelParams, since \in SinceParams,
        readOk \in BOOLEAN, ioOk \in BOOLEAN :
       Query(tail, level, since, readOk, ioOk)
  \/ Return
  \/ \E line \in ForeignLines : ManualInsert(line)
  \/ RemoveLogsDir

EnvSpec == Init /\ [][EnvNext]_vars

\* ===================================================================== claims
Today == appended[get_log_file]      \* what _write_log wrote to today's partition
Min(a, b) == IF a < b THEN a ELSE b

\* C1: a failed Append is absorbed in _write_log: it never aborts the request
\* being logged; the request goes on to its handler and is answered with the
\* handler's response (health: {status: ok}; logs: the list or the error body).
C1_AppendNeverPropagates ==
  \A r \in Reqs :
    /\ req[r].pc # "aborted"
    /\ req[r].response # "500"
    /\ req[r].absorbed > 0 => req[r].pc \in {"call_next", "responded"}
    /\ req[r].pc = "responded" =>
         IF req[r].kind = "health" THEN req[r].response = "health_ok"
         ELSE req[r].response \in {"logs", "error"}
\* a request whose Appends all failed was answered by its handler
C1_Witness ==
  \E r \in Reqs :
    /\ req[r].pc = "responded"
    /\ req[r].kind = "health"
    /\ req[r].absorbed = 2
    /\ req[r].response = "health_ok"

\* C2: the records written by the successful Appends of one day are returned,
\* in the order of the Appends, by a Query of that day with no level, no
\* since and tail >= their number.
C2_RoundTrip ==
  (/\ lastQuery.set
   /\ lastQuery.readOk
   /\ lastQuery.level = None
   /\ lastQuery.since = NoSince
   /\ lastQuery.tail >= Len(Today))
  => /\ lastQuery.result.exc = "none"
     /\ lastQuery.result.logs = Today
\* two different records came back in the order they were appended
C2_Witness ==
  /\ lastQuery.set
  /\ lastQuery.level = None
  /\ lastQuery.since = NoSince
  /\ lastQuery.tail >= 2
  /\ Len(Today) = 2
  /\ Today[1] # Today[2]
  /\ lastQuery.result.logs = Today

\* what the level and since filters leave of the lines Query read
Filtered ==
  LET logs == parse_lines(readlines(lastQuery.file.content, 1, <<>>))
      byLevel == level_filter(logs, lastQuery.level)
  IN since_filter(byLevel.logs, lastQuery.since).logs
LastN(logs, n) ==
  IF n >= Len(logs) THEN logs ELSE SubSeq(logs, Len(logs) - n + 1, Len(logs))

\* C3: a Query with tail = N returns at most N records, exactly
\* min(N, number of records left by the filters) of them, and they are the
\* last ones of the filtered sequence, in file order.
C3_TailBound ==
  (lastQuery.set /\ lastQuery.result.exc = "none")
  => /\ Len(lastQuery.result.logs) <= lastQuery.tail
     /\ Len(lastQuery.result.logs) = Min(lastQuery.tail, Len(Filtered))
     /\ lastQuery.result.logs = LastN(Filtered, lastQuery.tail)

\* equality of two level strings ignoring letter case
SameLevel(a, b) == lower(a) = lower(b)

Instant(ts) == IF ts.form = "naive" THEN ts.t - tz ELSE ts.t - ts.off

\* C5: given a since that parses as a timestamp (a trailing Z or an offset
\* included), Query succeeds and returns exactly the records whose timestamp
\* is not earlier than since (stated with no level and a tail that cuts nothing).
C5_SinceFilter ==
  (/\ lastQuery.set
   /\ lastQuery.readOk
   /\ lastQuery.level = None
   /\ lastQuery.since.form \in {"naive", "Z", "offset"}
   /\ lastQuery.tail >= Len(Today))
  => /\ lastQuery.result.exc = "none"
     /\ lastQuery.result.logs =
          SelectSeq(Today, LAMBDA e :
            Instant(e.timestamp) >= Instant(replace_Z(lastQuery.since)))

\* C6: a Query with a since that cannot be parsed returns what the same Query
\* returns with since omitted, and the since value adds no error.
C6_UnparseableSince ==
  (lastQuery.set /\ lastQuery.since.form \in {"bad", "empty"})
  => lastQuery.result =
       get_logs_body(lastQuery.dir, lastQuery.file, lastQuery.tail,
                     lastQuery.level, NoSince, lastQuery.readOk)
\* a Query with level and an unparseable since returned records
C6_Witness ==
  /\ lastQuery.set
  /\ lastQuery.since.form = "bad"
  /\ truthy(lastQuery.level)
  /\ lastQuery.result.exc = "none"
  /\ Len(lastQuery.result.logs) >= 1
  /\ \E i \in 1..Len(lastQuery.file.content) : lastQuery.file.content[i] = Garbage

\* the lines of a partition that are records written by _write_log
RECURSIVE Join(_)
Join(lines) ==
  IF lines = <<>> THEN <<>> ELSE Head(lines) \o <<NL>> \o Join(Tail(lines))
IsLogRecordLine(line) ==
  /\ json_loads(line).exc = "none"
  /\ json_loads(line).val.isDict
  /\ json_loads(line).val.timestamp.form = "naive"
  /\ json_loads(line).val.level \notin {"<absent>", "<number>"}
RecordsOnly(file) ==
  [exists |-> file.exists,
   content |-> Join(SelectSeq(readlines(file.content, 1, <<>>), IsLogRecordLine))]

\* C7: whatever the lines of the partition, Query returns a sequence: a line
\* that is no JSON is skipped, and a line that is JSON but no LogRecord does
\* not make the Query fail (a Query that succeeds on the LogRecord lines alone
\* succeeds on the whole partition, and returns only values of JSON lines;
\* stated for a positive tail).
C7_ReadPathTolerant ==
  (/\ lastQuery.set
   /\ lastQuery.readOk
   /\ lastQuery.tail > 0
   /\ get_logs_body(lastQuery.dir, RecordsOnly(lastQuery.file), lastQuery.tail,
                    lastQuery.level, lastQuery.since, TRUE).exc = "none")
  => /\ lastQuery.result.exc = "none"
     /\ \A i \in 1..Len(lastQuery.result.logs) :
          \E j \in 1..Len(lastQuery.file.content) :
            lastQuery.file.content[j] = json_dumps(lastQuery.result.logs[i])

\* the UTC calendar date of an instant
UTCDate(t) == t \div TicksPerDay

\* C8: a Query returns only records appended on the UTC date on which the
\* Query runs, and on a date without partition it returns the empty sequence
\* (stated for a positive tail).
C8_DayIsolation ==
  (lastQuery.set /\ lastQuery.tail > 0)
  => /\ ~lastQuery.file.exists => lastQuery.result = NoResult
     /\ \A i \in 1..Len(lastQuery.result.logs) :
          UTCDate(Instant(lastQuery.result.logs[i].timestamp)) = UTCDate(lastQuery.utcAt)

\* C9 as claimed: handling one request performs exactly one Append call.
C9_OneAppendPerRequest ==
  \A r \in Reqs : req[r].pc = "responded" => req[r].calls = 1

\* C9 as amended: log_requests performs exactly one Append call per request;
\* the /health handler performs one more; the /logs handler performs none
\* when the query succeeds and one (the error record) when it fails.
C9_AppendsPerRequest ==
  \A r \in Reqs :
    /\ req[r].pc = "received" => req[r].calls = 0
    /\ req[r].pc = "call_next" => req[r].calls = 1
    /\ req[r].pc = "responded" =>
         req[r].calls = (IF req[r].kind = "health" THEN 2
                         ELSE IF req[r].response = "logs" THEN 1 ELSE 2)
\* a /health request was answered after two Append calls and both lines are
\* in the partition
C9_Witness ==
  \E r \in Reqs :
    /\ req[r].pc = "responded"
    /\ req[r].kind = "health"
    /\ req[r].calls = 2
    /\ req[r].absorbed = 0
    /\ \E i \in 1..Len(Today) : Today[i].message = "GET /health"
    /\ \E i \in 1..Len(Today) : Today[i].message = "Health check requested"

\* one newline-terminated line holding the JSON text of each entry
RECURSIVE LinesOf(_)
LinesOf(entries) ==
  IF entries = <<>> THEN <<>>
  ELSE <<json_dumps(Head(entries)), NL>> \o LinesOf(Tail(entries))

\* C10: under every interleaving of the requests, a partition consists of
\* one complete newline-terminated JSON line per successful Append, in the
\* order of the Appends: no line is cut, merged with another or changed later.
C10_LineIntegrity ==
  \A d \in Days :
    /\ files[d].content = LinesOf(appended[d])
    /\ files[d].exists <=> appended[d] # <<>>
\* two requests are in flight and both have written their line
C10_Witness ==
  /\ \A r \in {1, 2} : req[r].pc = "call_next" /\ req[r].absorbed = 0
  /\ Len(Today) >= 2

====
